---- MODULE Spec2Model ----
(***************************************************************************)
(* A model of the article pipeline of news.py (class NewsSummarizer):      *)
(* validate_url, extract_article_content with its retry loop,              *)
(* _extract_content, the text normalisation, summarize_text,               *)
(* remove_redundancies and process_article.                                *)
(*                                                                         *)
(* Texts are sequences of tokens: a token is a word or one whitespace      *)
(* character (" " or "\n").  An input string is the sequence of its        *)
(* space-separated words.  A page is what BeautifulSoup sees of it: the    *)
(* og:image meta tag, the first img tag, and the elements that hold <p>    *)
(* paragraphs, in document order, each with the selectors it matches.      *)
(*                                                                         *)
(* A second specification, ServiceSpec, models the endpoints of main.py    *)
(* (save_article, get_articles, delete_article) as coroutines of one event *)
(* loop over the collection of db.py.                                      *)
(***************************************************************************)
EXTENDS Integers, Sequences, FiniteSets, TLC

----------------------------------------------------------------------------
(* Bounds of the model *)

\* the longest input string, in space-separated words
MaxInputWords == 2

\* the HTTP requests the service has in flight at once
MaxRequests == 2

----------------------------------------------------------------------------
(* Program constants *)

max_retries == 3
retry_delay == 2
RetryTotal == 3
status_forcelist == {500, 502, 503, 504}
DefaultMaxWords == 2900
MinWordsSelector == 5
MinWordsFallback == 10

unwanted_keywords == {"advertisement", "sponsored", "copyright", "related", "disclaimer"}

content_selectors ==
    << "div.article-main", "article .article-body", "article .story-body",
       "div.article-body", "div.article-content", "div.content",
       "div.post-content", "main", "article", "div[role=\"main\"]",
       ".article-text", ".story-content" >>

\* Python's None, where a text or a URL (a non-empty sequence) is expected
None == << >>

----------------------------------------------------------------------------
(* Texts *)

Whitespace == {" ", "\n"}

RECURSIVE Concat(_)
\* the concatenation of a sequence of sequences
Concat(ss) == IF ss = << >> THEN << >> ELSE Head(ss) \o Concat(Tail(ss))

RECURSIVE JoinWith(_, _)
\* sep.join(parts), for a one-token separator and parts that are texts
JoinWith(sep, parts) ==
    IF parts = << >> THEN << >>
    ELSE IF Len(parts) = 1 THEN Head(parts)
    ELSE Head(parts) \o << sep >> \o JoinWith(sep, Tail(parts))

\* str.split(): the words of a text, in order
Split(text) == SelectSeq(text, LAMBDA t : t \notin Whitespace)

RECURSIVE LStrip(_)
LStrip(text) ==
    IF text # << >> /\ Head(text) \in Whitespace THEN LStrip(Tail(text)) ELSE text

RECURSIVE RStrip(_)
RStrip(text) ==
    IF text # << >> /\ text[Len(text)] \in Whitespace
    THEN RStrip(SubSeq(text, 1, Len(text) - 1)) ELSE text

\* str.strip()
Strip(text) == RStrip(LStrip(text))

RECURSIVE CollapseWhitespace(_)
\* re.sub(r"\s+", " ", text): every run of whitespace becomes one space
CollapseWhitespace(text) ==
    IF text = << >> THEN << >>
    ELSE IF Head(text) \in Whitespace
         THEN << " " >> \o CollapseWhitespace(LStrip(text))
         ELSE << Head(text) >> \o CollapseWhitespace(Tail(text))

\* words[:n]
Take(words, n) == SubSeq(words, 1, IF n < Len(words) THEN n ELSE Len(words))

\* " ".join(words), for a list of words
JoinWords(words) == JoinWith(" ", [i \in 1..Len(words) |-> << words[i] >>])

\* Normalize without the [:max_words] of line 162
NormalizeUntruncated(article_text, max_words) ==
    LET joined == JoinWith(" ", article_text)
        clean  == Strip(CollapseWhitespace(joined))
    IN  JoinWords(Split(clean))

\* lines 160-163: clean and limit the text
Normalize(article_text, max_words) ==
    LET joined == JoinWith(" ", article_text)
        clean  == Strip(CollapseWhitespace(joined))
    IN  JoinWords(Take(Split(clean), max_words))

----------------------------------------------------------------------------
(* validate_url *)

\* The words an input string is made of.
InputWords ==
    { "see", "this:", "www.example.com/news", "https://example.com/news" }

\* urlparse(word).scheme is non-empty
WordHasScheme(w) == w \in {"this:", "https://example.com/news"}

\* urlparse(word ...).netloc is non-empty: the scheme is followed by "//" and a host
WordHasNetloc(w) == w \in {"https://example.com/news"}

\* url_pattern matches inside the word (the pattern requires http:// or https://)
WordMatchesPattern(w) == w \in {"https://example.com/news"}

\* lines 84-85: url.startswith(('http://', 'https://'))
StartsWithHttp(w) == w \in {"https://example.com/news"}

\* lines 67-72: the whole input parses with a scheme and a network location
ParsesAsUrl(text) ==
    /\ text # << >>
    /\ WordHasScheme(text[1])
    /\ WordHasNetloc(text[1])

\* lines 80: the index of the first word url_pattern.search finds, or 0
FirstMatch(text) ==
    IF \E i \in 1..Len(text) : WordMatchesPattern(text[i])
    THEN CHOOSE i \in 1..Len(text) :
            /\ WordMatchesPattern(text[i])
            /\ \A j \in 1..(i - 1) : ~WordMatchesPattern(text[j])
    ELSE 0

\* validate_url: [ok |-> TRUE, url] or [ok |-> FALSE, exc] (the ValueError raised)
validate_url(input_text) ==
    IF ParsesAsUrl(input_text)
    THEN [ok |-> TRUE, url |-> input_text]
    ELSE IF FirstMatch(input_text) # 0
         THEN LET url == input_text[FirstMatch(input_text)]
              IN  [ok |-> TRUE,
                   url |-> << IF StartsWithHttp(url) THEN url ELSE "https://" \o url >>]
         ELSE [ok |-> FALSE,
               exc |-> [type |-> "ValueError",
                        msg |-> "Invalid input. Please provide a valid URL."]]

----------------------------------------------------------------------------
(* Pages *)

Words ==
    << "Officials", "confirmed", "the", "new", "policy", "on",
       "Monday", "after", "a", "long", "public", "debate" >>

\* a paragraph of the first n words, single-spaced
Sentence(n) == JoinWords(SubSeq(Words, 1, n))

ParaLong  == Sentence(11)
ParaTen   == Sentence(10)
ParaMid   == Sentence(6)
ParaShort == Sentence(5)
ParaGappy ==
    << "Markets", " ", " ", "rallied", "\n", "sharply", " ", "\n", " ", "on",
       " ", "Tuesday", " ", "morning", " ", "trading" >>
ParaSponsored ==
    << "Sponsored", " ", "content", " ", "here,", " ", "more", " ", "than",
       " ", "five", " ", "words" >>
ParaUnrelated ==
    << "An", " ", "unrelated", " ", "story", " ", "broke", " ", "late", " ",
       "on", " ", "Sunday", " ", "night", " ", "across", " ", "the", " ",
       "region" >>
ParaBlank == << >>

\* str.lower() of a token
Lower(tok) ==
    CASE tok = "Sponsored" -> "sponsored"
      [] tok = "Officials" -> "officials"
      [] tok = "Monday"    -> "monday"
      [] tok = "Markets"   -> "markets"
      [] tok = "Tuesday"   -> "tuesday"
      [] tok = "Sunday"    -> "sunday"
      [] tok = "An"        -> "an"
      [] OTHER             -> tok

\* kw in tok: substring test on lower-case tokens
IsSubstring(kw, tok) ==
    \/ kw = tok
    \/ << kw, tok >> \in { << "related", "unrelated" >> }

\* any(kw in text.lower() for kw in unwanted_keywords)
HasUnwanted(text) ==
    \E i \in 1..Len(text) : \E kw \in unwanted_keywords : IsSubstring(kw, Lower(text[i]))

Block(sel, paras) == [sel |-> sel, paras |-> paras]

LeadAbs == << "https://cdn.example.com/lead.jpg" >>
LeadRel == << "/img/first.png" >>

\* an article body under div.article-body, and a bare paragraph outside it
PageArticle ==
    [ og |-> LeadAbs, img |-> LeadRel,
      blocks |-> << Block({"div.article-body"}, << ParaGappy, ParaSponsored, ParaShort, ParaMid >>),
                    Block({}, << ParaLong >>) >> ]

\* two elements match the same selector, both with accepted paragraphs
PageTwoBlocks ==
    [ og |-> None, img |-> LeadRel,
      blocks |-> << Block({"article"}, << ParaLong >>),
                    Block({"div.content"}, << ParaMid >>),
                    Block({"div.content"}, << ParaGappy >>) >> ]

\* the higher-priority selector matches an element without accepted paragraphs
PageSkip ==
    [ og |-> None, img |-> None,
      blocks |-> << Block({"div.article-main"}, << ParaShort, ParaSponsored >>),
                    Block({"main"}, << ParaMid, ParaUnrelated >>) >> ]

\* bare paragraphs only
PageBare ==
    [ og |-> LeadAbs, img |-> None,
      blocks |-> << Block({}, << ParaTen, ParaLong, ParaUnrelated, ParaMid >>) >> ]

\* reachable, but no paragraph qualifies
PageEmpty ==
    [ og |-> None, img |-> LeadAbs,
      blocks |-> << Block({"article"}, << ParaShort, ParaBlank >>),
                    Block({}, << ParaTen, ParaSponsored >>) >> ]

\* no paragraph at all
PageBlank == [ og |-> None, img |-> None, blocks |-> << >> ]

Pages == { PageArticle, PageTwoBlocks, PageSkip, PageBare, PageEmpty, PageBlank }

----------------------------------------------------------------------------
(* _extract_content *)

\* soup.select(selector): the elements matching the selector, in document order
Select(page, selector) == SelectSeq(page.blocks, LAMBDA b : selector \in b.sel)

\* soup.find_all('p'): every paragraph of the page, in document order
FindAllP(page) == Concat([i \in 1..Len(page.blocks) |-> page.blocks[i].paras])

\* Accepts with >= for > in the word-count test
AcceptsAtLeast(text, min_words) ==
    /\ text # << >>
    /\ Len(Split(text)) >= min_words
    /\ ~HasUnwanted(text)

\* lines 210-212 and 224-226: the filter a paragraph text passes
Accepts(text, min_words) ==
    /\ text # << >>
    /\ Len(Split(text)) > min_words
    /\ ~HasUnwanted(text)

\* the accepted paragraphs of a list of paragraphs, in order
AcceptedOf(paras, min_words) == SelectSeq(paras, LAMBDA p : Accepts(p, min_words))

RECURSIVE FirstAcceptedBlock(_)
\* lines 206-217: the loop over the elements one selector matched.  article_text
\* is empty when an element is entered, and the function returns after the first
\* element that left it non-empty.
FirstAcceptedBlock(content_blocks) ==
    IF content_blocks = << >> THEN << >>
    ELSE LET article_text == AcceptedOf(Head(content_blocks).paras, MinWordsSelector)
         IN  IF article_text # << >> THEN article_text
             ELSE FirstAcceptedBlock(Tail(content_blocks))

RECURSIVE SelectorLoopFirstMatching(_, _)
\* SelectorLoop stopping at the first selector that matches any element, whether or
\* not a paragraph of it was accepted
SelectorLoopFirstMatching(page, i) ==
    IF i > Len(content_selectors) THEN << >>
    ELSE IF Select(page, content_selectors[i]) # << >>
         THEN FirstAcceptedBlock(Select(page, content_selectors[i]))
         ELSE SelectorLoopFirstMatching(page, i + 1)

RECURSIVE SelectorLoop(_, _)
\* lines 204-217: the loop over content_selectors, from index i
SelectorLoop(page, i) ==
    IF i > Len(content_selectors) THEN << >>
    ELSE LET article_text == FirstAcceptedBlock(Select(page, content_selectors[i]))
         IN  IF article_text # << >> THEN article_text
             ELSE SelectorLoop(page, i + 1)

\* lines 219-229: the fallback over every paragraph of the page
FallbackParagraphs(page) == AcceptedOf(FindAllP(page), MinWordsFallback)

\* _extract_content(soup)
ExtractContent(page) ==
    IF SelectorLoop(page, 1) # << >> THEN SelectorLoop(page, 1)
    ELSE FallbackParagraphs(page)

\* urljoin(base, ref): an absolute reference stands, a relative one is resolved
\* against the page URL
UrlJoin(base, ref) ==
    IF ref = LeadAbs THEN ref ELSE << "urljoin" >> \o base \o ref

\* lines 142-146: og:image first, else the first img
MainImage(url, page) ==
    IF page.og # None THEN UrlJoin(url, page.og)
    ELSE IF page.img # None THEN UrlJoin(url, page.img)
    ELSE None

----------------------------------------------------------------------------
(* Exceptions *)

Exc(type, msg) == [type |-> type, msg |-> msg]

\* what session.get and raise_for_status raise
RequestsTimeouts == {"requests.ConnectTimeout", "requests.ReadTimeout"}
RequestsOthers   == {"requests.ConnectionError", "requests.RetryError", "requests.HTTPError"}

\* isinstance(e, requests.Timeout)
IsRequestsTimeout(exc) == exc.type \in RequestsTimeouts

\* isinstance(e, requests.RequestException)
IsRequestException(exc) == exc.type \in RequestsTimeouts \cup RequestsOthers

\* isinstance(e, ValueError)
IsValueError(exc) == exc.type = "ValueError"

\* isinstance(e, Exception): every exception the pipeline raises is one
IsException(exc) ==
    exc.type \in {"ValueError", "TimeoutError", "ConnectionError"}
                 \cup RequestsTimeouts \cup RequestsOthers

\* what the completion client raises
CompletionErrors == {"APIConnectionError", "RateLimitError"}

----------------------------------------------------------------------------
(* The outcome of a call *)

Pending      == [kind |-> "pending"]
Returned(v)  == [kind |-> "return", value |-> v]
Raised(exc)  == [kind |-> "raise", exc |-> exc]

\* ExceptClauses with the last attempt's test off by one: it sleeps and goes round
\* the loop after the last attempt too
ExceptClausesSleepAfterLast(exc, a) ==
    IF IsRequestException(exc)
    THEN IF a < max_retries THEN [kind |-> "retry"] ELSE Raised(Exc("TimeoutError", exc.msg))
    ELSE Raised(exc)

\* ExceptClauses with the clause for requests.RequestException placed first: a
\* timeout is a RequestException and is caught there
ExceptClausesTimeoutLast(exc, a) ==
    IF IsRequestException(exc)
    THEN IF a < max_retries - 1
         THEN [kind |-> "retry"]
         ELSE Raised(Exc("ConnectionError",
                  "Failed to fetch article after " \o ToString(max_retries)
                      \o " attempts: " \o exc.msg))
    ELSE Raised(exc)

\* ExceptClauses with "except Exception" in place of the second clause: every
\* exception of the try block is retried
ExceptClausesCatchAll(exc, a) ==
    IF IsRequestsTimeout(exc)
    THEN IF a < max_retries - 1
         THEN [kind |-> "retry"]
         ELSE Raised(Exc("TimeoutError",
                  "Failed to fetch article after " \o ToString(max_retries)
                      \o " attempts: Connection timeout"))
    ELSE IF a < max_retries - 1
         THEN [kind |-> "retry"]
         ELSE Raised(Exc("ConnectionError",
                  "Failed to fetch article after " \o ToString(max_retries)
                      \o " attempts: " \o exc.msg))

\* lines 167-181: the except clauses of the attempt loop, for an exception raised in
\* the try block of attempt number a.  "retry" sleeps and continues the loop.
ExceptClauses(exc, a) ==
    IF IsRequestsTimeout(exc)
    THEN IF a < max_retries - 1
         THEN [kind |-> "retry"]
         ELSE Raised(Exc("TimeoutError",
                  "Failed to fetch article after " \o ToString(max_retries)
                      \o " attempts: Connection timeout"))
    ELSE IF IsRequestException(exc)
    THEN IF a < max_retries - 1
         THEN [kind |-> "retry"]
         ELSE Raised(Exc("ConnectionError",
                  "Failed to fetch article after " \o ToString(max_retries)
                      \o " attempts: " \o exc.msg))
    ELSE Raised(exc)

\* NoContent with the ceiling test off by one: the last attempt sleeps too
NoContentSleepAfterLast(a) ==
    IF a < max_retries
    THEN [kind |-> "retry"]
    ELSE ExceptClauses(
             Exc("ValueError", "No meaningful text could be extracted from the article."), a)

\* lines 151-157: no paragraph was accepted on attempt number a
NoContent(a) ==
    IF a < max_retries - 1
    THEN [kind |-> "retry"]
    ELSE ExceptClauses(
             Exc("ValueError", "No meaningful text could be extracted from the article."), a)

\* ParsePage without the test of lines 151-157
ParsePageUnchecked(u, page, mw, a) ==
    Returned([text  |-> Normalize(ExtractContent(page), mw),
              image |-> MainImage(u, page),
              link  |-> u])

\* lines 139-165: the page was fetched on attempt number a
ParsePage(u, page, mw, a) ==
    LET main_image   == MainImage(u, page)
        article_text == ExtractContent(page)
    IN  IF article_text = << >>
        THEN NoContent(a)
        ELSE Returned([text |-> Normalize(article_text, mw), image |-> main_image, link |-> u])

\* line 183: the statement after the attempt loop
AfterLoop == Returned([error |-> "Failed to extract article content after all retries"])

\* ProcessArticleExcept without its second clause (lines 420-428)
ProcessArticleExceptNarrow(exc) ==
    IF IsValueError(exc)
    THEN Returned([error |-> "Validation error: " \o exc.msg,
                   processing_status |-> "failed",
                   validation_method |-> "llm"])
    ELSE Raised(exc)

\* lines 411-428: the except clauses of process_article
ProcessArticleExcept(exc) ==
    IF IsValueError(exc)
    THEN Returned([error |-> "Validation error: " \o exc.msg,
                   processing_status |-> "failed",
                   validation_method |-> "llm"])
    ELSE IF IsException(exc)
    THEN Returned([error |-> "Unexpected error during article processing: " \o exc.msg,
                   processing_status |-> "failed",
                   error_type |-> exc.type,
                   validation_method |-> "llm"])
    ELSE Raised(exc)

\* what a completion request comes back with: the content of the first choice,
\* or the exception the client raised
Answer(content) == [ok |-> TRUE, content |-> content]
Failure(exc)    == [ok |-> FALSE, exc |-> exc]

\* SummarizeExcept letting the exception through
SummarizeExceptReraise(exc) == Raised(exc)

\* lines 286-288: summarize_text's except clause
SummarizeExcept(exc) ==
    Returned(<< "Error", " ", "generating", " ", "summary:", " ", exc.msg >>)

\* SummarizeText without the strip() of line 285
SummarizeTextUntrimmed(reply) ==
    IF reply.ok THEN Returned(reply.content) ELSE SummarizeExcept(reply.exc)

\* lines 274-288: summarize_text, for what the completion request came back with
SummarizeText(reply) ==
    IF reply.ok THEN Returned(Strip(reply.content)) ELSE SummarizeExcept(reply.exc)

\* DeduplicatedOf without the test of lines 358-359
DeduplicatedOfUnchecked(text, content) == Strip(content)

\* lines 355-361: remove_redundancies' result for the content of a response
DeduplicatedOf(text, content) ==
    LET deduplicated_text == Strip(content)
    IN  IF deduplicated_text = << >> THEN text ELSE deduplicated_text

\* lines 363-365: remove_redundancies' except clause
DedupExcept(text, exc) == Returned(text)

\* lines 309-365: remove_redundancies, for what the completion request came back with
RemoveRedundancies(text, reply) ==
    IF reply.ok THEN Returned(DeduplicatedOf(text, reply.content))
    ELSE DedupExcept(text, reply.exc)

\* lines 401-409: the result process_article assembles and returns
AssembleResult(summary, extraction_result) ==
    Returned([summary |-> summary,
              link    |-> extraction_result.link,
              image   |-> extraction_result.image])

\* the exception process_article caught, when it caught none
NoExc == Exc("", "")

----------------------------------------------------------------------------
(* Inputs *)

RECURSIVE SeqsUpTo(_, _)
\* the sequences over S of length at most n
SeqsUpTo(S, n) ==
    IF n = 0 THEN { << >> }
    ELSE LET shorter == SeqsUpTo(S, n - 1)
         IN  shorter \cup { Append(q, x) : q \in shorter, x \in S }

Inputs == SeqsUpTo(InputWords, MaxInputWords)

\* the word budgets extract_article_content is called with
WordBudgets == {0, 4, DefaultMaxWords}

\* what the completion endpoint answers
Contents ==
    { << "\n", "**Introduction**", " ", "Summary", " ", "text.", " " >>,
      << "Headline", "\n", "Body" >>,
      << " ", "\n" >>,
      << >> }

\* the texts remove_redundancies is called with
DedupTexts == { ParaMid, << " ", "Lead", " ", " ", "story.", "\n" >>, << >> }

\* the HTTP statuses a server answers with
Statuses == {200, 404, 503}

Entries == {"process_article", "extract_article_content", "remove_redundancies"}

----------------------------------------------------------------------------
(* The state *)

VARIABLES
    entry,        \* the method the caller invoked
    input_text,   \* its argument: the input string, or the text to deduplicate
    max_words,    \* extract_article_content's word budget
    pc,           \* where the call is
    attempt,      \* the loop variable of extract_article_content
    url,          \* extract_article_content's url
    retries_left, \* what is left of the adapter's Retry(total=3) in this session.get
    response,     \* the page of the response session.get returned
    article_text, \* the paragraphs _extract_content returned (line 149)
    extraction,   \* process_article's extraction_result
    gets,         \* the calls of session.get
    sleeps,       \* the delays slept, in order
    completions,  \* the completion requests issued, in order
    history,      \* how each finished attempt ended
    caught,       \* the exception process_article's except clauses caught
    outcome,      \* what the call returned or raised
    requests,     \* main.py: the HTTP requests being served, each with its place
    articles,     \* db.py: the documents of the collection db.articles, in order
    running,      \* main.py: the request whose handler holds the event loop, or 0
    api_key       \* main.py: whether GROK_API_KEY is set in the environment

\* the arguments of the call
call == << entry, input_text, max_words >>

\* the state of the service of main.py
service == << requests, articles, running, api_key >>

\* the state of one call of a method of NewsSummarizer
pipeline == << call, pc, attempt, url, retries_left, response, article_text, extraction,
               gets, sleeps, completions, history, caught, outcome >>

vars == << pipeline, service >>

\* no request is being served
ServiceIdle ==
    /\ requests = << >>
    /\ articles = << >>
    /\ running = 0
    /\ api_key = TRUE

Init ==
    /\ entry \in Entries
    /\ \/ entry = "process_article" /\ input_text \in Inputs /\ max_words = DefaultMaxWords
       \/ entry = "extract_article_content" /\ input_text \in Inputs /\ max_words \in WordBudgets
       \/ entry = "remove_redundancies" /\ input_text \in DedupTexts /\ max_words = DefaultMaxWords
    /\ pc = IF entry = "remove_redundancies" THEN "dedup" ELSE "loop"
    /\ attempt = 0
    /\ url = input_text
    /\ retries_left = 0
    /\ response = PageBlank
    /\ article_text = << >>
    /\ extraction = Pending
    /\ gets = 0
    /\ sleeps = << >>
    /\ completions = << >>
    /\ history = << >>
    /\ caught = NoExc
    /\ outcome = Pending
    /\ ServiceIdle

----------------------------------------------------------------------------
(* Leaving extract_article_content *)

\* lines 389-394: extract_article_content returned or raised `res` to its caller
Leave(res) ==
    IF entry = "extract_article_content"
    THEN /\ outcome' = res
         /\ pc' = "done"
         /\ UNCHANGED << extraction, caught >>
    ELSE IF res.kind = "raise"
    THEN /\ outcome' = ProcessArticleExcept(res.exc)
         /\ caught' = res.exc
         /\ pc' = "done"
         /\ UNCHANGED extraction
    ELSE IF "error" \in DOMAIN res.value
    THEN /\ outcome' = res
         /\ pc' = "done"
         /\ extraction' = res
         /\ UNCHANGED caught
    ELSE /\ outcome' = Pending
         /\ pc' = "summarize"
         /\ extraction' = res
         /\ UNCHANGED caught

\* the end of attempt number `attempt` with result `res`: sleep and go round the
\* loop, or leave the function.  The response of an attempt that is retried goes
\* out of use.
EndAttempt(res, how) ==
    /\ history' = Append(history, how)
    /\ response' = IF res.kind = "retry" THEN PageBlank ELSE response
    /\ IF res.kind = "retry"
       THEN /\ sleeps' = Append(sleeps, retry_delay)
            /\ attempt' = attempt + 1
            /\ pc' = "loop"
            /\ UNCHANGED << outcome, extraction, caught >>
       ELSE /\ Leave(res)
            /\ UNCHANGED << sleeps, attempt >>

----------------------------------------------------------------------------
(* extract_article_content *)

\* lines 105-135: the head of the loop, validate_url, and the call of session.get
BeginAttempt ==
    /\ pc = "loop"
    /\ IF attempt < max_retries
       THEN LET v == validate_url(url)
            IN  IF v.ok
                THEN /\ url' = v.url
                     /\ retries_left' = RetryTotal
                     /\ gets' = gets + 1
                     /\ pc' = "fetch"
                     /\ UNCHANGED << outcome, extraction, caught, history, sleeps, attempt,
                                     response >>
                ELSE /\ EndAttempt(ExceptClauses(v.exc, attempt), "invalid")
                     /\ UNCHANGED << url, retries_left, gets >>
       ELSE /\ Leave(AfterLoop)
            /\ UNCHANGED << url, retries_left, history, sleeps, attempt, response, gets >>
    /\ UNCHANGED << service, call, article_text, completions >>

\* line 135: session.get times out
GetTimeout ==
    /\ pc = "fetch"
    /\ \E t \in RequestsTimeouts :
          EndAttempt(ExceptClauses(Exc(t, "timed out"), attempt), "timeout")
    /\ UNCHANGED << service, call, article_text, url, retries_left, gets, completions >>

\* line 135: session.get fails with another transport error
GetTransportError ==
    /\ pc = "fetch"
    /\ EndAttempt(ExceptClauses(Exc("requests.ConnectionError", "connection refused"), attempt),
                  "transport")
    /\ UNCHANGED << service, call, article_text, url, retries_left, gets, completions >>

\* lines 125-132: the adapter sends the request again after a status of the forcelist
GetStatusRetry ==
    /\ pc = "fetch"
    /\ retries_left > 0
    /\ \E st \in Statuses \cap status_forcelist : TRUE
    /\ retries_left' = retries_left - 1
    /\ UNCHANGED << service, call, article_text, pc, attempt, url, response, extraction,
                    gets, sleeps, completions, history, caught, outcome >>

\* lines 125-135: a status of the forcelist with no retry left
GetRetriesExhausted ==
    /\ pc = "fetch"
    /\ retries_left = 0
    /\ \E st \in Statuses \cap status_forcelist : TRUE
    /\ EndAttempt(ExceptClauses(Exc("requests.RetryError", "too many error responses"), attempt),
                  "transport")
    /\ UNCHANGED << service, call, article_text, url, retries_left, gets, completions >>

\* line 136: raise_for_status on an error status outside the forcelist
GetHttpError ==
    /\ pc = "fetch"
    /\ \E st \in Statuses \ status_forcelist :
          /\ st >= 400
          /\ EndAttempt(ExceptClauses(Exc("requests.HTTPError", ToString(st) \o " Client Error"),
                                      attempt), "http")
    /\ UNCHANGED << service, call, article_text, url, retries_left, gets, completions >>

\* lines 135-136: a 2xx response
GetOk ==
    /\ pc = "fetch"
    /\ \E st \in Statuses \ status_forcelist :
          /\ st < 400
          /\ \E page \in Pages : response' = page
    /\ pc' = "parse"
    /\ UNCHANGED << service, call, article_text, attempt, url, retries_left, extraction,
                    gets, sleeps, completions, history, caught, outcome >>

\* lines 139-165: parse the page, extract and normalise
Parse ==
    /\ pc = "parse"
    /\ LET res == ParsePage(url, response, max_words, attempt)
       IN  EndAttempt(res, IF ExtractContent(response) = << >> THEN "empty" ELSE "ok")
    /\ article_text' = ExtractContent(response)
    /\ UNCHANGED << service, call, url, retries_left, gets, completions >>

----------------------------------------------------------------------------
(* summarize_text, within process_article *)

\* Summarized with the request issued again after a failure
SummarizedRetrying(reply) ==
    /\ completions' = Append(completions, [kind |-> "summarize", reply |-> reply])
    /\ IF reply.ok
       THEN /\ outcome' = AssembleResult(SummarizeText(reply).value, extraction.value)
            /\ pc' = "done"
       ELSE UNCHANGED << outcome, pc >>
    /\ UNCHANGED << service, call, article_text, attempt, url, retries_left,
                    response, extraction, gets, sleeps, history, caught >>

\* lines 396-409, and 420-428 should summarize_text raise
Summarized(reply) ==
    LET res == SummarizeText(reply)
    IN  /\ completions' = Append(completions, [kind |-> "summarize", reply |-> reply])
        /\ IF res.kind = "raise"
           THEN /\ outcome' = ProcessArticleExcept(res.exc)
                /\ caught' = res.exc
           ELSE /\ outcome' = AssembleResult(res.value, extraction.value)
                /\ UNCHANGED caught
        /\ pc' = "done"
        /\ UNCHANGED << service, call, article_text, attempt, url, retries_left, response,
                        extraction, gets, sleeps, history >>

\* lines 275-285: the completion request answers
SummarizeOk ==
    /\ pc = "summarize"
    /\ \E content \in Contents : Summarized(Answer(content))

\* lines 286-288: the completion request fails
SummarizeFail ==
    /\ pc = "summarize"
    /\ \E e \in CompletionErrors : Summarized(Failure(Exc(e, "Connection error.")))

----------------------------------------------------------------------------
(* remove_redundancies *)

Deduplicated(reply) ==
    /\ completions' = Append(completions, [kind |-> "deduplicate", reply |-> reply])
    /\ outcome' = RemoveRedundancies(input_text, reply)
    /\ pc' = "done"
    /\ UNCHANGED << service, call, article_text, attempt, url, retries_left, response,
                    extraction, gets, sleeps, history, caught >>

\* lines 344-361: the completion request answers
DedupOk ==
    /\ pc = "dedup"
    /\ \E content \in Contents : Deduplicated(Answer(content))

\* lines 363-365: the completion request fails
DedupFail ==
    /\ pc = "dedup"
    /\ \E e \in CompletionErrors : Deduplicated(Failure(Exc(e, "Connection error.")))

----------------------------------------------------------------------------

Next ==
    \/ BeginAttempt
    \/ GetTimeout
    \/ GetTransportError
    \/ GetStatusRetry
    \/ GetRetriesExhausted
    \/ GetHttpError
    \/ GetOk
    \/ Parse
    \/ SummarizeOk
    \/ SummarizeFail
    \/ DedupOk
    \/ DedupFail

Spec == Init /\ [][Next]_vars

----------------------------------------------------------------------------
(* main.py: the service.  Each endpoint is an `async def` coroutine of one event   *)
(* loop: it gives the loop up only at an `await` (the calls of the database), and   *)
(* everything between two awaits runs with the loop held.  The database carries   *)
(* out a call at some moment between its issue and the coroutine's resumption.     *)

\* the requests in flight
Requests == 1..MaxRequests

\* the URLs the requests name (pydantic has validated them as HttpUrl)
Urls == { "https://example.com/news", "https://example.com/other" }

\* the endpoints
Operations == { "save_article", "get_articles", "delete_article" }

\* the places a request waits for the database at
DbCalls == { "find_one", "insert_one", "find", "delete_one" }

\* no document built yet
NoDocument == [url |-> "", summary |-> None, image |-> None, link |-> ""]

\* a request as it arrives
NewRequest(op, u) ==
    [op |-> op, url |-> u, pc |-> "start", reply |-> "none", result |-> Pending,
     document |-> NoDocument, status |-> 0, inserts |-> 0]

\* the pages the article's server may answer with
ServicePages == { PageArticle, PageEmpty }

\* the texts the completion request may be answered with
ServiceContents == { << "\n", "Headline", "\n", "Body", " " >> }

\* the exceptions extract_article_content ends its last attempt with
ExtractionFailures ==
    { ExceptClauses(Exc("requests.ReadTimeout", "Read timed out."), max_retries - 1),
      ExceptClauses(Exc("requests.ConnectionError", "Connection refused."), max_retries - 1),
      NoContent(max_retries - 1) }

\* line 91: what summarizer.process_article(url_str) comes back with.  An extraction
\* that raised goes through process_article's except clauses; one that returned is
\* summarized and assembled.
ProcessOutcomes(u) ==
    { ProcessArticleExcept(f.exc) : f \in ExtractionFailures }
    \cup
    { AssembleResult(SummarizeText(reply).value,
                     ParsePage(<< u >>, page, DefaultMaxWords, 0).value) :
        page \in { p \in ServicePages : ExtractContent(p) # << >> },
        reply \in { Answer(c) : c \in ServiceContents }
                  \cup { Failure(Exc(e, "Connection error.")) : e \in CompletionErrors } }

\* lines 92-101 and 140-147: the status for an exception process_article raises
SaveArticleExcept(exc) ==
    IF exc.type \in {"TimeoutError", "ConnectionError"} THEN 504
    ELSE IF IsValueError(exc) THEN 422
    ELSE 500

\* lines 90-114: the status save_article answers with for what process_article
\* came back with, or 0 when it goes on to build the document
ProcessedStatus(out) ==
    IF out.kind = "raise" THEN SaveArticleExcept(out.exc)
    ELSE IF DOMAIN out.value = {} \/ "error" \in DOMAIN out.value THEN 400
    ELSE 0

\* lines 116-122: the document to insert
Document(u, result) ==
    [url |-> u, summary |-> result.summary, image |-> result.image, link |-> u]

\* the collection holds a document with this url
Stored(u) == \E i \in 1..Len(articles) : articles[i].url = u

\* delete_one: the collection without the first document with this url
DeleteOne(u) ==
    LET i == CHOOSE i \in 1..Len(articles) :
                /\ articles[i].url = u
                /\ \A j \in 1..(i - 1) : articles[j].url # u
    IN  SubSeq(articles, 1, i - 1) \o SubSeq(articles, i + 1, Len(articles))

\* the handler of request r answers with this status
Respond(r, status) ==
    requests' = [requests EXCEPT ![r].pc = "responded", ![r].status = status]

\* the handler of request r issues a call of the database and awaits it
Await(r, db_call) ==
    requests' = [requests EXCEPT ![r].pc = db_call, ![r].reply = "none"]

\* the database has carried out the call request r awaits
Reply(r, reply) == requests' = [requests EXCEPT ![r].reply = reply]

\* request r's coroutine can be resumed: the loop is free and its call was answered
Resumable(r, db_call) ==
    /\ running = 0
    /\ requests[r].pc = db_call
    /\ requests[r].reply # "none"

ServiceInit ==
    /\ requests \in [Requests -> { NewRequest(op, u) : op \in Operations, u \in Urls }]
    /\ articles = << >>
    /\ running = 0
    /\ api_key \in BOOLEAN
    /\ entry = "process_article"
    /\ input_text = << >>
    /\ max_words = DefaultMaxWords
    /\ pc = "done"
    /\ attempt = 0
    /\ url = << >>
    /\ retries_left = 0
    /\ response = PageBlank
    /\ article_text = << >>
    /\ extraction = Pending
    /\ gets = 0
    /\ sleeps = << >>
    /\ completions = << >>
    /\ history = << >>
    /\ caught = NoExc
    /\ outcome = Pending

\* lines 69-73: save_article starts and awaits db.find_one
SaveArticleStart(r) ==
    /\ running = 0
    /\ requests[r].op = "save_article"
    /\ requests[r].pc = "start"
    /\ Await(r, "find_one")
    /\ UNCHANGED << pipeline, articles, running, api_key >>

\* db.find_one({"url": url_str}) is carried out
DbFindOne(r) ==
    /\ requests[r].pc = "find_one"
    /\ requests[r].reply = "none"
    /\ Reply(r, IF Stored(requests[r].url) THEN "found" ELSE "absent")
    /\ UNCHANGED << pipeline, articles, running, api_key >>

\* lines 74-91: save_article resumes after find_one, and unless the article exists
\* or the summarizer cannot be constructed, calls process_article: a plain call,
\* during which the coroutine keeps the event loop
SaveArticleProcess(r) ==
    /\ Resumable(r, "find_one")
    /\ IF requests[r].reply = "error"
       THEN Respond(r, 500) /\ UNCHANGED running
       ELSE IF requests[r].reply = "found"
       THEN Respond(r, 400) /\ UNCHANGED running
       ELSE IF ~api_key
       THEN Respond(r, 500) /\ UNCHANGED running
       ELSE /\ requests' = [requests EXCEPT ![r].pc = "process_article"]
            /\ running' = r
    /\ UNCHANGED << pipeline, articles, api_key >>

\* lines 91-126: process_article comes back; save_article checks the result, builds
\* the document and awaits db.insert_one
SaveArticleProcessed(r) ==
    /\ running = r
    /\ requests[r].pc = "process_article"
    /\ \E out \in ProcessOutcomes(requests[r].url) :
          requests' = [requests EXCEPT
              ![r].result = out,
              ![r].pc = IF ProcessedStatus(out) = 0 THEN "insert_one" ELSE "responded",
              ![r].status = ProcessedStatus(out),
              ![r].reply = IF ProcessedStatus(out) = 0 THEN "none" ELSE requests[r].reply,
              ![r].document = IF ProcessedStatus(out) = 0
                              THEN Document(requests[r].url, out.value)
                              ELSE NoDocument]
    /\ running' = 0
    /\ UNCHANGED << pipeline, articles, api_key >>

\* db.insert_one(document) is carried out: db.py declares no unique index, so the
\* collection takes the document whatever it holds
DbInsertOne(r) ==
    /\ requests[r].pc = "insert_one"
    /\ requests[r].reply = "none"
    /\ articles' = Append(articles, requests[r].document)
    /\ requests' = [requests EXCEPT ![r].reply = "inserted",
                                    ![r].inserts = requests[r].inserts + 1]
    /\ UNCHANGED << pipeline, running, api_key >>

\* SaveArticleRespond answering 201 whatever insert_one came back with
SaveArticleRespondAlways(r) ==
    /\ Resumable(r, "insert_one")
    /\ Respond(r, 201)
    /\ UNCHANGED << pipeline, articles, running, api_key >>

\* lines 127-138: save_article resumes after insert_one and answers
SaveArticleRespond(r) ==
    /\ Resumable(r, "insert_one")
    /\ Respond(r, IF requests[r].reply = "error" THEN 500 ELSE 201)
    /\ UNCHANGED << pipeline, articles, running, api_key >>

\* lines 47-50: get_articles starts and awaits db.find({}).to_list(None)
GetArticlesStart(r) ==
    /\ running = 0
    /\ requests[r].op = "get_articles"
    /\ requests[r].pc = "start"
    /\ Await(r, "find")
    /\ UNCHANGED << pipeline, articles, running, api_key >>

\* db.find({}) is carried out
DbFind(r) ==
    /\ requests[r].pc = "find"
    /\ requests[r].reply = "none"
    /\ Reply(r, "listed")
    /\ UNCHANGED << pipeline, articles, running, api_key >>

\* lines 51-57: get_articles resumes and answers
GetArticlesRespond(r) ==
    /\ Resumable(r, "find")
    /\ Respond(r, IF requests[r].reply = "error" THEN 500 ELSE 200)
    /\ UNCHANGED << pipeline, articles, running, api_key >>

\* lines 158-161: delete_article starts and awaits db.delete_one
DeleteArticleStart(r) ==
    /\ running = 0
    /\ requests[r].op = "delete_article"
    /\ requests[r].pc = "start"
    /\ Await(r, "delete_one")
    /\ UNCHANGED << pipeline, articles, running, api_key >>

\* db.delete_one({"url": str(url)}) is carried out
DbDeleteOne(r) ==
    /\ requests[r].pc = "delete_one"
    /\ requests[r].reply = "none"
    /\ IF Stored(requests[r].url)
       THEN /\ articles' = DeleteOne(requests[r].url)
            /\ Reply(r, "deleted")
       ELSE /\ Reply(r, "missing")
            /\ UNCHANGED articles
    /\ UNCHANGED << pipeline, running, api_key >>

\* lines 162-174: delete_article resumes and answers
DeleteArticleRespond(r) ==
    /\ Resumable(r, "delete_one")
    /\ Respond(r, CASE requests[r].reply = "error"   -> 500
                    [] requests[r].reply = "missing" -> 404
                    [] OTHER                         -> 200)
    /\ UNCHANGED << pipeline, articles, running, api_key >>

\* the call of the database fails with a PyMongoError
DbFails(r) ==
    /\ requests[r].pc \in DbCalls
    /\ requests[r].reply = "none"
    /\ Reply(r, "error")
    /\ UNCHANGED << pipeline, articles, running, api_key >>

ServiceNext ==
    \E r \in Requests :
        \/ SaveArticleStart(r)
        \/ DbFindOne(r)
        \/ SaveArticleProcess(r)
        \/ SaveArticleProcessed(r)
        \/ DbInsertOne(r)
        \/ SaveArticleRespond(r)
        \/ GetArticlesStart(r)
        \/ DbFind(r)
        \/ GetArticlesRespond(r)
        \/ DeleteArticleStart(r)
        \/ DbDeleteOne(r)
        \/ DeleteArticleRespond(r)
        \/ DbFails(r)

ServiceSpec == ServiceInit /\ [][ServiceNext]_vars

----------------------------------------------------------------------------
(* Properties *)

Done == pc = "done"

\* every finished attempt ended in one of `kinds`
HistoryWithin(kinds) == \A i \in 1..Len(history) : history[i] \in kinds

\* the call returned an object
ReturnedObject == outcome.kind = "return"

\* the keys of the object the call returned
Keys == DOMAIN outcome.value

\* the input string holds no URL validate_url accepts
NoAcceptableUrl == ~validate_url(input_text).ok

AllAttemptsEmpty == Len(history) = max_retries /\ HistoryWithin({"empty"})

\* C1: when process_article is given a valid URL whose page is reachable on every
\* attempt but yields no qualifying paragraph on all max_retries attempts, the
\* object it returns has the key error and neither processing_status nor
\* validation_method.
C1_ContentFailureIsBare ==
    (entry = "process_article" /\ Done /\ AllAttemptsEmpty)
        => /\ ReturnedObject
           /\ "error" \in Keys
           /\ "processing_status" \notin Keys
           /\ "validation_method" \notin Keys

\* how far process_article is from its end: every step brings it nearer
C2_Distance ==
    CASE pc = "loop"      -> (max_retries - attempt) * 100 + 90
      [] pc = "fetch"     -> (max_retries - attempt) * 100 + 50 + retries_left
      [] pc = "parse"     -> (max_retries - attempt) * 100 + 40
      [] pc = "summarize" -> 20
      [] pc = "dedup"     -> 20
      [] OTHER            -> 0

\* C2: for every input string and every combination of fetch outcomes and
\* completion outcomes, process_article ends by returning a result object and never
\* raises to its caller: it never holds a raised exception as its outcome, it has
\* returned an object exactly when it is done, while it is not done it is at a place
\* where a step is possible whatever the outcomes are (the head of the loop, the
\* fetch, the parse or the summarization), and every step brings it nearer to its
\* end.
C2_NoExceptionEscapes ==
    /\ [](entry = "process_article" =>
            /\ outcome.kind # "raise"
            /\ Done <=> ReturnedObject
            /\ ~Done => pc \in {"loop", "fetch", "parse", "summarize"}
            /\ C2_Distance >= 0)
    /\ [][entry = "process_article" => C2_Distance' < C2_Distance]_vars

\* process_article has turned the exception of an exhausted fetch into an object
C2_Witness ==
    /\ entry = "process_article" /\ Done /\ ReturnedObject
    /\ caught.type = "ConnectionError"
    /\ "error_type" \in Keys

\* C3: when every attempt of the loop for a valid URL times out,
\* extract_article_content makes exactly max_retries (3) attempts, sleeps the retry
\* delay exactly twice, between consecutive attempts and never after the last one,
\* and then fails with a TimeoutError.
C3_RetryCeiling ==
    (history # << >> /\ HistoryWithin({"timeout"})) =>
        /\ Len(history) <= max_retries
        /\ ~Done => /\ Len(history) < max_retries
                    /\ sleeps = [i \in 1..Len(history) |-> retry_delay]
                    /\ attempt = Len(history)
        /\ Done =>  /\ Len(history) = max_retries
                    /\ gets = max_retries
                    /\ sleeps = [i \in 1..(max_retries - 1) |-> retry_delay]
                    /\ Len(sleeps) = 2
                    /\ IF entry = "extract_article_content"
                       THEN outcome.kind = "raise" /\ outcome.exc.type = "TimeoutError"
                       ELSE caught.type = "TimeoutError"

\* the third timeout in a row has ended extract_article_content
C3_Witness ==
    /\ entry = "extract_article_content" /\ Done
    /\ history = << "timeout", "timeout", "timeout" >>
    /\ outcome.kind = "raise"

\* C4: when all max_retries attempts fail with transport errors,
\* extract_article_content raises TimeoutError if the last attempt timed out and
\* ConnectionError if the last attempt failed with another transport error, whatever
\* the earlier attempts failed with, and returns no object.
C4_ClassifiedByLastAttempt ==
    (entry = "extract_article_content" /\ Done
        /\ Len(history) = max_retries /\ HistoryWithin({"timeout", "transport"}))
        => /\ outcome.kind = "raise"
           /\ outcome.exc.type = IF history[max_retries] = "timeout"
                                 THEN "TimeoutError" ELSE "ConnectionError"

\* a timeout after two other transport errors
C4_Witness ==
    /\ entry = "extract_article_content" /\ Done
    /\ history = << "transport", "transport", "timeout" >>
    /\ outcome.kind = "raise" /\ outcome.exc.type = "TimeoutError"

\* C5: when an attempt ends with an error status outside 500/502/503/504 (404),
\* extract_article_content fails on that attempt: no later attempt is started and the
\* retry delay is not slept after it.
C5_HttpErrorIsFinal ==
    \A i \in 1..Len(history) :
        history[i] = "http" => /\ i = Len(history)
                               /\ Done
                               /\ Len(sleeps) = i - 1

\* C6: when the input string holds no acceptable URL, process_article returns an
\* object with error, processing_status "failed" and validation_method "llm" and
\* without error_type, and has called session.get, slept and issued a completion
\* request zero times.
C6_InputErrorImmediate ==
    (entry = "process_article" /\ NoAcceptableUrl) =>
        /\ gets = 0
        /\ sleeps = << >>
        /\ completions = << >>
        /\ attempt = 0
        /\ pc \in {"loop", "done"}
        /\ Done => /\ ReturnedObject
                   /\ Keys = {"error", "processing_status", "validation_method"}
                   /\ outcome.value.processing_status = "failed"
                   /\ outcome.value.validation_method = "llm"
                   /\ outcome.value.error
                        = "Validation error: Invalid input. Please provide a valid URL."

\* process_article has answered a scheme-less URL embedded in prose
C6_Witness ==
    /\ entry = "process_article" /\ Done
    /\ input_text = << "see", "www.example.com/news" >>
    /\ "error" \in Keys
    /\ history = << "invalid" >>

\* C7: every exception raised at a stage of process_article, other than the failure
\* of the input validation, is reported as an object with error, processing_status
\* "failed", validation_method "llm" and error_type equal to the kind of the
\* exception.
C7_ErrorKindTagged ==
    (entry = "process_article" /\ Done /\ caught # NoExc
        /\ history # << >> /\ history[Len(history)] # "invalid")
        => /\ ReturnedObject
           /\ Keys = {"error", "processing_status", "error_type", "validation_method"}
           /\ outcome.value.processing_status = "failed"
           /\ outcome.value.validation_method = "llm"
           /\ outcome.value.error_type = caught.type

\* the summarization request of this run failed
SummarizeFailed ==
    /\ completions # << >>
    /\ completions[1].kind = "summarize"
    /\ ~completions[1].reply.ok

DedupFellBack ==
    /\ completions # << >>
    /\ completions[1].kind = "deduplicate"
    /\ \/ ~completions[1].reply.ok
       \/ /\ completions[1].reply.ok
          /\ Split(completions[1].reply.content) = << >>

\* C9: for every input text, if the completion request of remove_redundancies raises
\* or answers with an empty response, remove_redundancies returns exactly the input
\* text and does not raise.
C9_DedupFallback ==
    (entry = "remove_redundancies" /\ DedupFellBack) =>
        /\ Done
        /\ ReturnedObject
        /\ outcome.value = input_text

\* a text with leading and trailing whitespace came back whole after a failed request
C9_Witness ==
    /\ entry = "remove_redundancies" /\ DedupFellBack
    /\ ~completions[1].reply.ok
    /\ input_text # Strip(input_text)
    /\ outcome.value = input_text

\* C10: every object extract_article_content returns without an error key, called
\* with the default word budget, has a non-empty text, on whichever attempt it
\* succeeds.
C10_TextNonEmpty ==
    /\ (entry = "extract_article_content" /\ Done /\ max_words = DefaultMaxWords
          /\ ReturnedObject /\ "error" \notin Keys)
        => /\ outcome.value.text # << >>
           /\ Split(outcome.value.text) # << >>
    /\ (entry = "process_article" /\ extraction # Pending
          /\ "error" \notin DOMAIN extraction.value)
        => /\ extraction.value.text # << >>
           /\ Split(extraction.value.text) # << >>

\* extract_article_content succeeded on its last attempt
C10_Witness ==
    /\ entry = "extract_article_content" /\ Done /\ max_words = DefaultMaxWords
    /\ ReturnedObject /\ "error" \notin Keys
    /\ history = << "empty", "timeout", "ok" >>

\* process_article's extraction succeeded and its completion request was answered
SummarizeAnswered ==
    /\ completions # << >>
    /\ completions[1].kind = "summarize"
    /\ completions[1].reply.ok

\* a text with no whitespace at either end
Trimmed(text) ==
    text = << >> \/ (text[1] \notin Whitespace /\ text[Len(text)] \notin Whitespace)

Parsed ==
    /\ pc \in {"summarize", "done"}
    /\ history # << >>
    /\ history[Len(history)] \in {"ok", "empty"}

\* the filter of the specification: non-empty, more than n words, no denylist
\* keyword in the lower-cased text
Qualifies(text, n) ==
    /\ text # << >>
    /\ Cardinality({ i \in 1..Len(text) : text[i] \notin Whitespace }) > n
    /\ \A i \in 1..Len(text) : \A kw \in unwanted_keywords : ~IsSubstring(kw, Lower(text[i]))

\* selector i yields an accepted paragraph on the page
Yields(page, i) ==
    \E k \in 1..Len(page.blocks) :
        /\ content_selectors[i] \in page.blocks[k].sel
        /\ \E j \in 1..Len(page.blocks[k].paras) : Qualifies(page.blocks[k].paras[j], 5)

\* the highest-priority selector that yields an accepted paragraph, 0 when none does
Winner(page) ==
    IF \E i \in 1..Len(content_selectors) : Yields(page, i)
    THEN CHOOSE i \in 1..Len(content_selectors) :
            Yields(page, i) /\ \A h \in 1..(i - 1) : ~Yields(page, h)
    ELSE 0

\* the paragraph is one of an element the selector matches
InsideMatch(page, i, text) ==
    \E k \in 1..Len(page.blocks) :
        /\ content_selectors[i] \in page.blocks[k].sel
        /\ \E j \in 1..Len(page.blocks[k].paras) : page.blocks[k].paras[j] = text

\* C12: _extract_content returns paragraphs only from the highest-priority
\* selector that yields an accepted paragraph: something is returned, nothing
\* outside the elements that selector matches is returned, and a selector that
\* matches elements without an accepted paragraph is passed over.
C12_SelectorPrecedence ==
    (Parsed /\ Winner(response) # 0) =>
        /\ article_text # << >>
        /\ \A n \in 1..Len(article_text) :
              InsideMatch(response, Winner(response), article_text[n])

\* the page whose higher-priority selector matched an element without accepted
\* paragraphs was parsed, and the paragraph of the lower-priority one came back
C12_Witness ==
    /\ Parsed
    /\ response = PageSkip
    /\ Winner(response) = 8
    /\ article_text = << ParaMid >>

\* the div.article-body page was parsed and the bare paragraph outside it, which
\* the fallback would accept, was not returned
C12_WitnessOutside ==
    /\ Parsed
    /\ response = PageArticle
    /\ Qualifies(ParaLong, 10)
    /\ \A n \in 1..Len(article_text) : article_text[n] # ParaLong

\* C13: every returned paragraph has no denylist keyword, and more than 5 words
\* when a structural selector yielded it or more than 10 words when the
\* bare-paragraph fallback did; the fallback is used only when no selector
\* yielded an accepted paragraph.
C13_ExtractorFilters ==
    Parsed =>
        /\ \A n \in 1..Len(article_text) :
              Qualifies(article_text[n], IF Winner(response) # 0 THEN 5 ELSE 10)
        /\ Winner(response) # 0 =>
              \A n \in 1..Len(article_text) :
                 \E k \in 1..Len(response.blocks) :
                    /\ response.blocks[k].sel # {}
                    /\ \E j \in 1..Len(response.blocks[k].paras) :
                          response.blocks[k].paras[j] = article_text[n]

\* the fallback ran on the page of bare paragraphs: the 11-word paragraph came
\* back, the 10-word, the 6-word and the denylisted one did not
C13_Witness ==
    /\ Parsed
    /\ response = PageBare
    /\ Winner(response) = 0
    /\ article_text = << ParaLong >>

\* a structural selector ran on a page with a 5-word and a sponsored paragraph
C13_WitnessSelector ==
    /\ Parsed
    /\ response = PageArticle
    /\ article_text = << ParaGappy, ParaMid >>

\* the accepted paragraphs of every element selector i matches, in document order
EveryMatch(page, i) ==
    Concat([k \in 1..Len(page.blocks) |->
              IF content_selectors[i] \in page.blocks[k].sel
              THEN SelectSeq(page.blocks[k].paras, LAMBDA t : Qualifies(t, 5))
              ELSE << >>])

\* C17: for the first selector that yields an accepted paragraph, _extract_content
\* returns the accepted paragraphs of every element the selector matches, in
\* document order, not only those of the first such element.
C17_CollectsEveryMatch ==
    (Parsed /\ Winner(response) # 0) =>
        article_text = EveryMatch(response, Winner(response))

\* the words of the catalogue that are URLs without a scheme
SchemelessUrls == { "www.example.com/news" }

\* the input embeds a scheme-less URL and no URL with a scheme
EmbedsSchemeless(text) ==
    /\ \E i \in 1..Len(text) : text[i] \in SchemelessUrls
    /\ \A i \in 1..Len(text) : ~WordHasScheme(text[i]) \/ ~WordHasNetloc(text[i])

\* the first scheme-less URL of the input
FirstSchemeless(text) ==
    text[CHOOSE i \in 1..Len(text) :
            /\ text[i] \in SchemelessUrls
            /\ \A j \in 1..(i - 1) : text[j] \notin SchemelessUrls]

\* C14: when the input is prose that embeds a scheme-less URL such as
\* www.example.com/news, validate_url succeeds and returns that URL prefixed
\* with https://.
C14_SchemeRepair ==
    (entry # "remove_redundancies" /\ history # << >> /\ EmbedsSchemeless(input_text)) =>
        /\ history[1] # "invalid"
        /\ url = << "https://" \o FirstSchemeless(input_text) >>

\* extraction has returned its object for a page with accepted paragraphs
Extracted ==
    /\ entry # "remove_redundancies"
    /\ Parsed
    /\ history[Len(history)] = "ok"

\* the text of the object extraction returned
ExtractedText ==
    IF entry = "extract_article_content" THEN outcome.value.text ELSE extraction.value.text

\* the words of a list of paragraphs, in their original order
WordsOf(paras) == SelectSeq(Concat(paras), LAMBDA t : t \notin Whitespace)

\* the smaller of two numbers
Min(a, b) == IF a < b THEN a ELSE b

\* C15: for every list of accepted paragraphs, the text extraction returns has
\* every run of whitespace collapsed to one space, no whitespace at either end,
\* and exactly min(N, number of words of the input) words in their original
\* order, N being the word budget (2900 by default).
C15_Normalizer ==
    Extracted =>
        LET text  == ExtractedText
            words == SelectSeq(text, LAMBDA t : t \notin Whitespace)
        IN  /\ Trimmed(text)
            /\ \A i \in 1..Len(text) : text[i] \in Whitespace => text[i] = " "
            /\ \A i \in 1..(Len(text) - 1) :
                  (text[i] \in Whitespace) # (text[i + 1] \in Whitespace)
            /\ Len(words) = Min(max_words, Len(WordsOf(article_text)))
            /\ \A k \in 1..Len(words) : words[k] = WordsOf(article_text)[k]
            /\ entry = "process_article" => max_words = 2900

\* paragraphs with runs of spaces and newlines, thirteen words in all, came back as
\* the first four words, single-spaced
C15_Witness ==
    /\ Extracted
    /\ max_words = 4
    /\ article_text = << ParaGappy, ParaMid >>
    /\ Len(WordsOf(article_text)) = 13
    /\ ExtractedText = << "Markets", " ", "rallied", " ", "sharply", " ", "on" >>

\* the default budget left every word in place
C15_WitnessWhole ==
    /\ Extracted
    /\ max_words = 2900
    /\ article_text = << ParaGappy, ParaMid >>
    /\ Len(ExtractedText) = 25

\* the outcomes of one attempt the loop is specified for
AttemptOutcomes == {"timeout", "transport", "empty", "ok"}

\* the call is inside the attempt loop
InLoop == pc \in {"loop", "fetch", "parse"}

\* C18: for every sequence of per-attempt outcomes (timeout, other transport
\* error, empty content, success) extract_article_content ends after at most
\* max_retries (3) attempts, stops at the first attempt that succeeds, sleeps the
\* retry delay exactly once after each failed attempt that another attempt
\* follows, and never sleeps after its final attempt; every step brings it nearer
\* to its end.
C18_BoundedRetries ==
    /\ []((entry # "remove_redundancies" /\ HistoryWithin(AttemptOutcomes)) =>
            /\ Len(history) <= max_retries
            /\ gets <= max_retries
            /\ gets \in {Len(history), Len(history) + 1}
            /\ \A i \in 1..(Len(history) - 1) : history[i] # "ok"
            /\ \A i \in 1..Len(sleeps) : sleeps[i] = retry_delay
            /\ InLoop =>
                  /\ attempt = Len(history)
                  /\ attempt < max_retries
                  /\ Len(sleeps) = Len(history)
                  /\ \A i \in 1..Len(history) : history[i] # "ok"
            /\ ~InLoop =>
                  /\ history # << >>
                  /\ Len(sleeps) = Len(history) - 1
                  /\ history[Len(history)] # "ok" => Len(history) = max_retries
                  /\ gets = Len(history))
    /\ [][entry = "extract_article_content" =>
            /\ C2_Distance' < C2_Distance
            /\ C2_Distance' >= 0
            /\ Len(history') <= Len(history) + 1
            /\ Len(sleeps') > Len(sleeps) => (InLoop /\ InLoop' /\ attempt' = attempt + 1)]_vars

\* a transport error and an empty page were each followed by a sleep and another
\* attempt, the third attempt succeeded and ended the call without a sleep
C18_Witness ==
    /\ entry = "extract_article_content" /\ Done
    /\ history = << "transport", "empty", "ok" >>
    /\ sleeps = << retry_delay, retry_delay >>
    /\ gets = 3
    /\ ReturnedObject

\* the first attempt succeeded: one GET, no sleep
C18_WitnessFirst ==
    /\ entry = "extract_article_content" /\ Done
    /\ history = << "ok" >>
    /\ sleeps = << >>
    /\ gets = 1

C19_WitnessNone ==
    /\ entry = "process_article" /\ Done
    /\ history = << "invalid" >>
    /\ completions = << >>

\* request r is executing the pipeline: process_article was called and has not
\* come back
InPipeline(r) == requests[r].pc = "process_article"

\* the next step of request q is one of its handler: it has not started, or the
\* database has answered the call it awaits
HandlerDue(q) ==
    \/ requests[q].pc = "start"
    \/ requests[q].pc \in DbCalls /\ requests[q].reply # "none"

\* the event loop can run the handler of request q now
CanRun(q) == running \in {0, q}

\* C16: while one save_article request is executing the pipeline, the other
\* requests to the service (get_articles, delete_article or another
\* save_article) can still make progress: the handler of a request whose next
\* step is due can be run.
C16_SlowExtractionDoesNotStall ==
    \A r, q \in Requests :
        (r # q /\ InPipeline(r) /\ HandlerDue(q)) => CanRun(q)

\* every request is a save_article
OnlySaves == \A r \in Requests : requests[r].op = "save_article"

\* the number of documents of the collection with this url
RecordsOf(u) == Cardinality({ i \in 1..Len(articles) : articles[i].url = u })

\* the requests for this url that were answered 201
CreatedFor(u) ==
    { r \in Requests : requests[r].url = u /\ requests[r].status = 201 }

\* C20: after any interleaving of concurrent save_article requests, two for the
\* same URL whose existence checks both ran before either insert included, the
\* collection holds at most one record per url and at most one of the requests
\* for a URL is answered 201.
C20_UrlUniqueness ==
    OnlySaves =>
        \A u \in Urls :
            /\ RecordsOf(u) <= 1
            /\ Cardinality(CreatedFor(u)) <= 1

\* save_article request r has answered after process_article came back
Processed(r) ==
    /\ requests[r].op = "save_article"
    /\ requests[r].pc = "responded"
    /\ requests[r].result # Pending

\* processing failed because the fetch attempts were exhausted by timeouts or
\* connection errors: the exception was a TimeoutError or a ConnectionError
FetchExhausted(out) ==
    IF out.kind = "raise"
    THEN out.exc.type \in {"TimeoutError", "ConnectionError"}
    ELSE /\ "error_type" \in DOMAIN out.value
         /\ out.value.error_type \in {"TimeoutError", "ConnectionError"}

\* processing failed with a validation error: the exception was a ValueError
ValidationFailed(out) ==
    IF out.kind = "raise"
    THEN out.exc.type = "ValueError"
    ELSE /\ "error" \in DOMAIN out.value
         /\ "error_type" \notin DOMAIN out.value
         /\ "validation_method" \in DOMAIN out.value

\* C21: when article processing inside save_article fails because the fetch
\* attempts were exhausted by timeouts or connection errors, save_article
\* answers 504, and when it fails with a validation error it answers 422.
C21_GatewayTimeoutMapping ==
    \A r \in Requests :
        Processed(r) =>
            /\ FetchExhausted(requests[r].result) => requests[r].status = 504
            /\ ValidationFailed(requests[r].result) => requests[r].status = 422

\* request r is a save_article that was answered
SaveAnswered(r) ==
    /\ requests[r].op = "save_article"
    /\ requests[r].pc = "responded"

\* request r inserts a record in this step
Inserts(r) == requests'[r].inserts = requests[r].inserts + 1

\* C22: every save_article request that is not answered 201 inserts nothing
\* (the URL is already stored, the summarizer cannot be constructed for a
\* missing credential, or process_article returned an object with error), and
\* every request answered 201 inserted exactly one record, whose url and link
\* both equal the requested URL.
C22_FailedCreateLeavesStore ==
    /\ [](\A r \in Requests :
            /\ requests[r].inserts <= 1
            /\ requests[r].op # "save_article" => requests[r].inserts = 0
            /\ (SaveAnswered(r) /\ requests[r].status # 201) => requests[r].inserts = 0
            /\ (SaveAnswered(r) /\ requests[r].status = 201) => requests[r].inserts = 1
            /\ requests[r].status = 201 => SaveAnswered(r))
    /\ [][/\ \A r \in Requests :
                Inserts(r) =>
                    /\ requests[r].op = "save_article"
                    /\ Len(articles') = Len(articles) + 1
                    /\ SubSeq(articles', 1, Len(articles)) = articles
                    /\ articles'[Len(articles')].url = requests[r].url
                    /\ articles'[Len(articles')].link = requests[r].url
          /\ Len(articles') > Len(articles) => \E r \in Requests : Inserts(r)
          /\ \A r \in Requests :
                (requests[r].status = 0 /\ requests'[r].status # 0) =>
                    /\ articles' = articles
                    /\ requests'[r].inserts = requests[r].inserts]_vars

\* one request created the article and was answered 201; the other, for the same
\* URL, found it stored, was answered 400 and inserted nothing
C22_Witness ==
    /\ OnlySaves
    /\ \E r, q \in Requests :
          /\ requests[r].url = requests[q].url
          /\ SaveAnswered(r) /\ requests[r].status = 201 /\ requests[r].inserts = 1
          /\ SaveAnswered(q) /\ requests[q].status = 400 /\ requests[q].reply = "found"
          /\ requests[q].inserts = 0
          /\ Len(articles) = 1
          /\ articles[1].url = requests[r].url
          /\ articles[1].link = requests[r].url

\* the credential is missing: the summarizer was not constructed, the request was
\* answered 500 and the collection is as it was
C22_WitnessNoCredential ==
    /\ ~api_key
    /\ \E r \in Requests :
          /\ SaveAnswered(r) /\ requests[r].status = 500 /\ requests[r].reply = "absent"
          /\ requests[r].inserts = 0
    /\ articles = << >>

\* process_article returned an object with error: answered 400, nothing inserted
C22_WitnessError ==
    \E r \in Requests :
        /\ SaveAnswered(r) /\ requests[r].status = 400
        /\ requests[r].result # Pending
        /\ "error" \in DOMAIN requests[r].result.value
        /\ requests[r].inserts = 0
        /\ articles = << >>

====
